---- MODULE Spec2Model ----
(***************************************************************************)
(* Model of the indicator calculator of argo-trading                       *)
(* (internal/indicator/test_data/src/indicator_calculator/indicator.py).   *)
(*                                                                         *)
(* The four functions calculate_sma, calculate_ema, calculate_rsi and      *)
(* calculate_macd are pure functions from a pandas DataFrame and a         *)
(* configuration to a DataFrame or an exception.  A DataFrame is modelled  *)
(* as its row index (a sequence of integer labels) and its columns (a      *)
(* function from column names to sequences of numbers).  Numbers are exact *)
(* extended rationals <<n, d>>: d > 0 is the rational n/d in lowest terms, *)
(* <<0, 0>> is the missing value (NaN, pd.NA), <<1, 0>> and <<-1, 0>> are   *)
(* the infinities that float division by zero produces.  Rounding of       *)
(* binary floating point and the sign of a float zero are not modelled.    *)
(***************************************************************************)
EXTENDS Integers, Sequences, FiniteSets, TLC

VARIABLES data, call, result

vars == <<data, call, result>>

(***************************************************************************)
(* Bounds of the model.                                                    *)
(***************************************************************************)
MaxRows == 4
MaxVal == 2
MaxPeriod == 3
MaxNeg == 2

(***************************************************************************)
(* Numbers.                                                                *)
(***************************************************************************)
NaN == <<0, 0>>
Abs(n) == IF n < 0 THEN -n ELSE n

Sign(n) == IF n < 0 THEN -1 ELSE IF n > 0 THEN 1 ELSE 0

RECURSIVE Gcd(_, _)
Gcd(a, b) == IF b = 0 THEN a ELSE Gcd(b, a % b)

\* n/d in lowest terms with a positive denominator; d = 0 gives NaN or an infinity.
Rat(n, d) ==
  IF d = 0 THEN <<Sign(n), 0>>
  ELSE LET g == Gcd(Abs(n), Abs(d))
       IN  <<(Sign(d) * n) \div g, Abs(d) \div g>>

Num(n) == <<n, 1>>

isna(x) == x = NaN

notna(x) == x # NaN

IsFinite(x) == x[2] > 0

Neg(x) == <<-x[1], x[2]>>

Add(x, y) ==
  IF isna(x) \/ isna(y) THEN NaN
  ELSE IF ~IsFinite(x) /\ ~IsFinite(y) THEN (IF x = y THEN x ELSE NaN)
  ELSE IF ~IsFinite(x) THEN x
  ELSE IF ~IsFinite(y) THEN y
  ELSE Rat(x[1] * y[2] + y[1] * x[2], x[2] * y[2])

Sub(x, y) == Add(x, Neg(y))

Mul(x, y) ==
  IF isna(x) \/ isna(y) THEN NaN
  ELSE IF ~IsFinite(x) \/ ~IsFinite(y) THEN <<Sign(x[1]) * Sign(y[1]), 0>>
  ELSE Rat(x[1] * y[1], x[2] * y[2])

\* Float division: x/0 is an infinity (NaN for 0/0), finite/infinity is 0.
Div(x, y) ==
  IF isna(x) \/ isna(y) THEN NaN
  ELSE IF ~IsFinite(y) THEN (IF IsFinite(x) THEN Num(0) ELSE NaN)
  ELSE IF ~IsFinite(x) THEN (IF y[1] < 0 THEN Neg(x) ELSE x)
  ELSE Rat(x[1] * y[2], x[2] * y[1])

\* x > y and x < y of floats: every comparison with NaN is false.
Gt(x, y) == notna(x) /\ notna(y) /\ Sub(x, y)[1] > 0

Lt(x, y) == Gt(y, x)

Le(x, y) == notna(x) /\ notna(y) /\ ~Gt(x, y)

(***************************************************************************)
(* pandas Series operations used by the source.                            *)
(***************************************************************************)
Min(a, b) == IF a < b THEN a ELSE b

Max(a, b) == IF a > b THEN a ELSE b

RECURSIVE SumSeq(_)
SumSeq(s) == IF s = <<>> THEN Num(0) ELSE Add(Head(s), SumSeq(Tail(s)))

\* Series.dropna()
dropna(s) == SelectSeq(s, notna)

\* Series.mean() with the default skipna=True: the mean of the values present.
mean(s) ==
  LET v == dropna(s)
  IN  IF Len(v) = 0 THEN NaN ELSE Div(SumSeq(v), Num(Len(v)))

\* Python slice bounds: a negative bound counts from the end, then clamp.
SliceBound(k, n) == IF k < 0 THEN Max(k + n, 0) ELSE Min(k, n)

\* Series.iloc[a:b] on positions 0..n-1
iloc(s, a, b) ==
  LET lo == SliceBound(a, Len(s))
      hi == SliceBound(b, Len(s))
  IN  IF hi <= lo THEN <<>> ELSE SubSeq(s, lo + 1, hi)

\* Series.rolling(window, min_periods).mean() at position i (1-based):
\* the mean of the values present in the window when at least min_periods are.
RollingAt(s, window, min_periods, i) ==
  LET w == iloc(s, Max(i - window, 0), i)
      v == dropna(w)
  IN  IF Len(v) >= min_periods /\ Len(v) > 0
      THEN Div(SumSeq(v), Num(Len(v)))
      ELSE NaN

\* Mutation: min_periods=1, a mean over whatever part of the window is present.
rolling_mean_partial(s, window) ==
  [i \in 1..Len(s) |-> RollingAt(s, window, 1, i)]

\* Series.rolling(window=window).mean(): min_periods defaults to the window.
rolling_mean(s, window) ==
  [i \in 1..Len(s) |-> RollingAt(s, window, window, i)]

\* Series.diff(): the first entry has no predecessor and is NaN.
diff(s) ==
  [i \in 1..Len(s) |-> IF i = 1 THEN NaN ELSE Sub(s[i], s[i - 1])]

(***************************************************************************)
(* DataFrames and outcomes of a call.                                      *)
(***************************************************************************)
Frame(index, cols) == [index |-> index, cols |-> cols]

NRows(t) == Len(t.index)

HasColumn(t, c) == c \in DOMAIN t.cols

HasLabel(t, l) == \E p \in 1..Len(t.index) : t.index[p] = l

Pos(t, l) == CHOOSE p \in 1..Len(t.index) : t.index[p] = l

\* result[name] = s : adds the column, or replaces a column of that name.
SetColumn(t, name, s) ==
  Frame(t.index, [c \in DOMAIN t.cols \cup {name} |->
                     IF c = name THEN s ELSE t.cols[c]])

\* result[name] = pd.NA
FillColumn(t, name) == SetColumn(t, name, [i \in 1..NRows(t) |-> NaN])

\* result.drop(names, axis=1)
DropColumns(t, names) ==
  Frame(t.index, [c \in DOMAIN t.cols \ names |-> t.cols[c]])

Returned(t) == [kind |-> "table", table |-> t]

Raised(e) == [kind |-> "error", error |-> e]

NoResult == [kind |-> "none"]

(***************************************************************************)
(* calculate_sma                                                           *)
(***************************************************************************)
calculate_sma(d, period, column) ==
  IF ~HasColumn(d, column) THEN Raised("KeyError")
  ELSE IF period < 0 THEN Raised("ValueError")
  ELSE Returned(SetColumn(d, "sma_" \o ToString(period),
                          rolling_mean(d.cols[column], period)))

(***************************************************************************)
(* calculate_ema                                                           *)
(***************************************************************************)
\* Series.ewm(span, adjust=False).mean() from position i on, as pandas
\* computes it (ignore_na=False, min_periods=0): weighted is the running
\* average and old_wt the weight it carries.  A missing value is skipped:
\* the running average is written out again and its weight decays.
RECURSIVE ewm_from(_, _, _, _, _)
ewm_from(s, i, weighted, old_wt, alpha) ==
  IF i > Len(s) THEN <<>>
  ELSE
    LET cur == s[i]
        decayed == Mul(old_wt, Sub(Num(1), alpha))
        w == IF notna(weighted)
             THEN (IF notna(cur) /\ weighted # cur
                   THEN Div(Add(Mul(decayed, weighted), Mul(alpha, cur)),
                            Add(decayed, alpha))
                   ELSE weighted)
             ELSE cur
        o == IF notna(weighted)
             THEN (IF notna(cur) THEN Num(1) ELSE decayed)
             ELSE old_wt
    IN  <<w>> \o ewm_from(s, i + 1, w, o, alpha)

ewm_mean(s, span) ==
  IF Len(s) = 0 THEN <<>>
  ELSE <<s[1]>> \o ewm_from(s, 2, s[1], Num(1), Rat(2, span + 1))

calculate_ema(d, period) ==
  IF ~HasColumn(d, "close") THEN Raised("KeyError")
  ELSE IF period < 1 THEN Raised("ValueError")
  ELSE Returned(SetColumn(d, "ema_" \o ToString(period),
                          ewm_mean(d.cols["close"], period)))

(***************************************************************************)
(* calculate_rsi                                                           *)
(***************************************************************************)
\* delta.where(delta > 0, 0): NaN > 0 is false, so a missing delta becomes 0.
gain_of(delta) ==
  [i \in 1..Len(delta) |-> IF Gt(delta[i], Num(0)) THEN delta[i] ELSE Num(0)]

\* -delta.where(delta < 0, 0)
loss_of(delta) ==
  [i \in 1..Len(delta) |->
     Neg(IF Lt(delta[i], Num(0)) THEN delta[i] ELSE Num(0))]

\* Mutation: 100 - 100 / rs, the 1 of the denominator dropped.
rsi_value_no_one(avg_gain, avg_loss) ==
  Sub(Num(100), Div(Num(100), Div(avg_gain, avg_loss)))

\* rs = avg_gain / avg_loss ; 100 - (100 / (1 + rs))
rsi_value(avg_gain, avg_loss) ==
  Sub(Num(100), Div(Num(100), Add(Num(1), Div(avg_gain, avg_loss))))

avg_gain_of(close, period) == rolling_mean(gain_of(diff(close)), period)

avg_loss_of(close, period) == rolling_mean(loss_of(diff(close)), period)

calculate_rsi(d, period) ==
  IF ~HasColumn(d, "close") THEN Raised("KeyError")
  ELSE IF period < 0 THEN Raised("ValueError")
  ELSE
    LET avg_gain == avg_gain_of(d.cols["close"], period)
        avg_loss == avg_loss_of(d.cols["close"], period)
    IN  Returned(SetColumn(d, "rsi_" \o ToString(period),
                           [i \in 1..NRows(d) |->
                              rsi_value(avg_gain[i], avg_loss[i])]))

(***************************************************************************)
(* calculate_macd                                                          *)
(***************************************************************************)
\* result.loc[label, column] of a label of the index
loc_get(t, label, column) == t.cols[column][Pos(t, label)]

\* result.loc[label, column] = v : sets the cell of an existing label; a
\* label that is not in the index is appended as a new row (setting with
\* enlargement), missing in every other column.
loc_set(t, label, column, v) ==
  IF HasLabel(t, label)
  THEN Frame(t.index, [c \in DOMAIN t.cols |->
                         IF c = column
                         THEN [t.cols[c] EXCEPT ![Pos(t, label)] = v]
                         ELSE t.cols[c]])
  ELSE Frame(Append(t.index, label),
             [c \in DOMAIN t.cols |->
                Append(t.cols[c], IF c = column THEN v ELSE NaN)])

\* The state of a call in progress: the working frame, or the exception raised.
Ok(t) == [err |-> "", t |-> t]

Fail(e) == [err |-> e, t |-> Frame(<<>>, <<>>)]

\* result['ema_fast'] = pd.NA ... result['macd_histogram'] = pd.NA on a copy
macd_columns(d) ==
  FillColumn(FillColumn(FillColumn(FillColumn(FillColumn(d,
    "ema_fast"), "ema_slow"), "macd_line"), "signal_line"), "macd_histogram")

\* for i in range(i, stop): result.loc[i, target] =
\*   result.loc[i, column] * multiplier + result.loc[i - 1, target] * (1 - multiplier)
RECURSIVE ema_rows(_, _, _, _, _, _)
ema_rows(st, i, stop, column, target, multiplier) ==
  IF st.err # "" \/ i >= stop THEN st
  ELSE IF ~HasLabel(st.t, i) \/ ~HasLabel(st.t, i - 1) THEN Fail("KeyError")
  ELSE
    LET current_price == loc_get(st.t, i, column)
        previous_ema == loc_get(st.t, i - 1, target)
        value == Add(Mul(current_price, multiplier),
                     Mul(previous_ema, Sub(Num(1), multiplier)))
    IN  ema_rows(Ok(loc_set(st.t, i, target, value)), i + 1, stop,
                 column, target, multiplier)

\* The multiplier, the seed at label period - 1 (the mean of the values
\* present among the first period rows) and the recurrence over the rest.
ema_column(st, period, column, target) ==
  IF st.err # "" THEN st
  ELSE IF period + 1 = 0 THEN Fail("ZeroDivisionError")
  ELSE IF ~HasColumn(st.t, column) THEN Fail("KeyError")
  ELSE
    LET seeded == loc_set(st.t, period - 1, target,
                          mean(iloc(st.t.cols[column], 0, period)))
    IN  ema_rows(Ok(seeded), period, NRows(seeded), column, target,
                 Rat(2, period + 1))

\* for i in range(i, stop): macd_line = ema_fast - ema_slow
RECURSIVE macd_rows(_, _, _)
macd_rows(st, i, stop) ==
  IF st.err # "" \/ i >= stop THEN st
  ELSE IF ~HasLabel(st.t, i) THEN Fail("KeyError")
  ELSE macd_rows(Ok(loc_set(st.t, i, "macd_line",
                            Sub(loc_get(st.t, i, "ema_fast"),
                                loc_get(st.t, i, "ema_slow")))),
                 i + 1, stop)

\* for i in range(i, stop): signal_line =
\*   macd_line * multiplier + previous signal_line * (1 - multiplier)
RECURSIVE signal_rows(_, _, _, _)
signal_rows(st, i, stop, multiplier) ==
  IF st.err # "" \/ i >= stop THEN st
  ELSE IF ~HasLabel(st.t, i) \/ ~HasLabel(st.t, i - 1) THEN Fail("KeyError")
  ELSE
    LET current_macd == loc_get(st.t, i, "macd_line")
        previous_signal == loc_get(st.t, i - 1, "signal_line")
        value == Add(Mul(current_macd, multiplier),
                     Mul(previous_signal, Sub(Num(1), multiplier)))
    IN  signal_rows(Ok(loc_set(st.t, i, "signal_line", value)), i + 1, stop,
                    multiplier)

first_valid_macd(fast_period, slow_period) == Max(fast_period, slow_period) - 1

first_signal_index(fast_period, slow_period, signal_period) ==
  first_valid_macd(fast_period, slow_period) + signal_period - 1

\* The seed of the signal line, the mean of the MACD values present in
\* positions first_valid_macd..first_signal_index, and its recurrence.
signal_column(st, fast_period, slow_period, signal_period) ==
  IF st.err # "" THEN st
  ELSE IF signal_period + 1 = 0 THEN Fail("ZeroDivisionError")
  ELSE
    LET fv == first_valid_macd(fast_period, slow_period)
        K == first_signal_index(fast_period, slow_period, signal_period)
        valid_macd_values == dropna(iloc(st.t.cols["macd_line"], fv, K + 1))
    IN  IF K < NRows(st.t) /\ Len(valid_macd_values) > 0
        THEN LET seeded == loc_set(st.t, K, "signal_line",
                                   mean(valid_macd_values))
             IN  signal_rows(Ok(seeded), K + 1, NRows(seeded),
                             Rat(2, signal_period + 1))
        ELSE st

\* for i in range(i, stop): macd_histogram = macd_line - signal_line
RECURSIVE histogram_rows(_, _, _)
histogram_rows(st, i, stop) ==
  IF st.err # "" \/ i >= stop THEN st
  ELSE IF ~HasLabel(st.t, i) THEN Fail("KeyError")
  ELSE histogram_rows(Ok(loc_set(st.t, i, "macd_histogram",
                                 Sub(loc_get(st.t, i, "macd_line"),
                                     loc_get(st.t, i, "signal_line")))),
                      i + 1, stop)

\* The frame before the intermediate columns are dropped.
macd_frame(d, fast_period, slow_period, signal_period, column) ==
  LET fast == ema_column(Ok(macd_columns(d)), fast_period, column, "ema_fast")
      slow == ema_column(fast, slow_period, column, "ema_slow")
      line == IF slow.err # "" THEN slow
              ELSE macd_rows(slow, slow_period - 1, NRows(slow.t))
      signal == signal_column(line, fast_period, slow_period, signal_period)
  IN  IF signal.err # "" THEN signal
      ELSE histogram_rows(signal,
             first_signal_index(fast_period, slow_period, signal_period),
             NRows(signal.t))

calculate_macd(d, fast_period, slow_period, signal_period, column) ==
  LET st == macd_frame(d, fast_period, slow_period, signal_period, column)
  IN  IF st.err # "" THEN Raised(st.err)
      ELSE Returned(DropColumns(st.t, {"ema_fast", "ema_slow"}))

(***************************************************************************)
(* Inputs and the state machine.                                           *)
(***************************************************************************)
Values == {NaN} \cup {Num(v) : v \in 1..MaxVal}

Periods == (-MaxNeg)..MaxPeriod

SourceColumns == {"close", "open"}

ExtraColumns == {"open", "ema_fast", "macd_line", "sma_2"}

RangeIndex(n) == [i \in 1..n |-> i - 1]

\* The second column of an input table: distinct present values per row.
ExtraValues(n) == [i \in 1..n |-> Num(10 + i)]

InputFrames ==
  UNION {
    {Frame(RangeIndex(n), [c \in {"close"} |-> close])
       : close \in [1..n -> Values]}
    \cup
    {Frame(RangeIndex(n), [c \in {"close", x} |->
                              IF c = "close" THEN close ELSE ExtraValues(n)])
       : close \in [1..n -> Values], x \in ExtraColumns}
    : n \in 0..MaxRows}

Init ==
  /\ data \in InputFrames
  /\ call = [fn |-> "none"]
  /\ result = NoResult

CallSma(period, column) ==
  /\ call.fn = "none"
  /\ call' = [fn |-> "calculate_sma", period |-> period, column |-> column]
  /\ result' = calculate_sma(data, period, column)
  /\ UNCHANGED data

NextSma == \E p \in Periods, c \in SourceColumns : CallSma(p, c)

CallEma(period) ==
  /\ call.fn = "none"
  /\ call' = [fn |-> "calculate_ema", period |-> period]
  /\ result' = calculate_ema(data, period)
  /\ UNCHANGED data

CallRsi(period) ==
  /\ call.fn = "none"
  /\ call' = [fn |-> "calculate_rsi", period |-> period]
  /\ result' = calculate_rsi(data, period)
  /\ UNCHANGED data

NextEma == \E p \in Periods : CallEma(p)

NextRsi == \E p \in Periods : CallRsi(p)

CallMacd(fast_period, slow_period, signal_period, column) ==
  /\ call.fn = "none"
  /\ call' = [fn |-> "calculate_macd", fast_period |-> fast_period,
               slow_period |-> slow_period, signal_period |-> signal_period,
               column |-> column]
  /\ result' = calculate_macd(data, fast_period, slow_period, signal_period,
                              column)
  /\ UNCHANGED data

NextMacd ==
  \E f \in Periods, s \in Periods, g \in Periods, c \in SourceColumns :
    CallMacd(f, s, g, c)

Next == NextSma \/ NextEma \/ NextRsi \/ NextMacd

Spec == Init /\ [][Next]_vars

SpecSma == Init /\ [][NextSma]_vars

SpecEma == Init /\ [][NextEma]_vars

SpecRsi == Init /\ [][NextRsi]_vars

SpecMacd == Init /\ [][NextMacd]_vars

(***************************************************************************)
(* Properties.                                                             *)
(***************************************************************************)
Called(fn) == call.fn = fn

\* C1: for a period P >= 1 and a source column of the table, calculate_sma
\* returns a table whose column sma_P holds at row i the mean of the source
\* values at rows i-P+1..i when i >= P-1 and all P of them are present, and
\* is absent at every other row (rows 0..P-2, and rows whose window holds an
\* absent value: no partial averaging).
C1_SmaWindowMean ==
  (Called("calculate_sma") /\ call.period >= 1 /\ HasColumn(data, call.column))
  => /\ result.kind = "table"
     /\ LET P == call.period
            src == data.cols[call.column]
            out == result.table.cols["sma_" \o ToString(P)]
        IN  /\ Len(out) = Len(src)
            /\ \A i \in 1..Len(src) :
                  LET full == i >= P /\ \A j \in (i - P + 1)..i : notna(src[j])
                  IN  IF full
                      THEN /\ notna(out[i])
                           /\ Mul(out[i], Num(P)) = SumSeq(SubSeq(src, i - P + 1, i))
                      ELSE isna(out[i])

\* C1 witness: a period-2 average over three rows whose last value is absent:
\* row 1 holds the mean of rows 0..1 and row 2, whose window is incomplete, is absent.
C1_Witness ==
  /\ Called("calculate_sma") /\ call.period = 2 /\ call.column = "close"
  /\ result.kind = "table"
  /\ data.cols["close"] = <<Num(1), Num(2), NaN>>
  /\ result.table.cols["sma_2"] = <<NaN, Rat(3, 2), NaN>>

InvalidConfiguration ==
  \/ Called("calculate_sma")
       /\ (call.period <= 0 \/ ~HasColumn(data, call.column))
  \/ Called("calculate_ema") /\ call.period <= 0
  \/ Called("calculate_rsi") /\ call.period <= 0
  \/ Called("calculate_macd")
       /\ (\/ call.fast_period <= 0
           \/ call.slow_period <= 0
           \/ call.signal_period <= 0
           \/ ~HasColumn(data, call.column))

ValidConfiguration == call.fn # "none" /\ ~InvalidConfiguration

\* C2: every call with positive periods and a source column of the table
\* returns a table with the rows of the input table, the same labels in the
\* same order, and every column of it has exactly that many entries.
C2_RowsPreserved ==
  ValidConfiguration
  => /\ result.kind = "table"
     /\ result.table.index = data.index
     /\ \A c \in DOMAIN result.table.cols :
          Len(result.table.cols[c]) = NRows(data)

\* C3: a call with a non-positive period or with a source column that is not
\* in the table ends in an error; it never returns a table.
C3_InvalidConfigurationFails ==
  InvalidConfiguration => result.kind = "error"

\* C4: every column of the input table, whatever its name, is a column of
\* the table a valid call returns, with the same value at every input row.
C4_ExistingColumnsUntouched ==
  (ValidConfiguration /\ result.kind = "table")
  => \A c \in DOMAIN data.cols :
       /\ c \in DOMAIN result.table.cols
       /\ \A i \in 1..NRows(data) : result.table.cols[c][i] = data.cols[c][i]

ValidMacdCall ==
  /\ Called("calculate_macd")
  /\ call.fast_period >= 1 /\ call.slow_period >= 1 /\ call.signal_period >= 1
  /\ HasColumn(data, call.column)

AllAbsent(s) == \A i \in 1..Len(s) : isna(s[i])

\* C5: calculate_macd with positive periods returns a table whatever the
\* number of rows N; with N < max(F,S) the macd_line column is absent at
\* every row, and with N < max(F,S) + G - 1 so are signal_line and
\* macd_histogram.
C5_InsufficientDataIsNoError ==
  ValidMacdCall
  => /\ result.kind = "table"
     /\ LET warm == Max(call.fast_period, call.slow_period)
        IN  /\ NRows(data) < warm
                 => AllAbsent(result.table.cols["macd_line"])
            /\ NRows(data) < warm + call.signal_period - 1
                 => /\ AllAbsent(result.table.cols["signal_line"])
                    /\ AllAbsent(result.table.cols["macd_histogram"])

\* alpha * source[i] + (1 - alpha) * previous, absent when an operand is.
Recur(alpha, x, previous) ==
  Add(Mul(alpha, x), Mul(Sub(Num(1), alpha), previous))

\* The continuous-seeding EMA of C6 at row i (1-based).
RECURSIVE ContinuousEma(_, _, _)
ContinuousEma(src, P, i) ==
  IF i = 1 THEN src[1]
  ELSE Recur(Rat(2, P + 1), src[i], ContinuousEma(src, P, i - 1))

\* C6: for a period P >= 1 calculate_ema returns ema[0] = source[0] and
\* ema[i] = alpha*source[i] + (1-alpha)*ema[i-1] with alpha = 2/(P+1), an
\* absent operand giving an absent result, so that an absent source value
\* makes that row and every later row absent.
C6_EmaRecurrence ==
  (Called("calculate_ema") /\ call.period >= 1)
  => /\ result.kind = "table"
     /\ LET src == data.cols["close"]
            out == result.table.cols["ema_" \o ToString(call.period)]
        IN  /\ Len(out) = Len(src)
            /\ \A i \in 1..Len(src) : out[i] = ContinuousEma(src, call.period, i)

\* The mean of s when every value is present, absent otherwise.
FullMean(s) ==
  IF \A j \in 1..Len(s) : notna(s[j])
  THEN Div(SumSeq(s), Num(Len(s)))
  ELSE NaN

\* The SMA-seeded EMA of period X of C7 at row i (1-based): absent before
\* row X, the mean of the first X values at row X, the recurrence after.
RECURSIVE SeededEma(_, _, _)
SeededEma(src, X, i) ==
  IF i < X THEN NaN
  ELSE IF i = X THEN FullMean(SubSeq(src, 1, X))
  ELSE Recur(Rat(2, X + 1), src[i], SeededEma(src, X, i - 1))

\* C7: for positive F and S, macd_line is absent at every row before
\* max(F,S)-1 and from there on equals emaFast - emaSlow, the SMA-seeded EMAs
\* of the source column, whose seed is absent when any seeding value is.
C7_MacdLine ==
  (ValidMacdCall /\ result.kind = "table")
  => LET src == data.cols[call.column]
         out == result.table.cols["macd_line"]
     IN  \A i \in 1..Len(src) :
           out[i] = IF i < Max(call.fast_period, call.slow_period) THEN NaN
                    ELSE Sub(SeededEma(src, call.fast_period, i),
                             SeededEma(src, call.slow_period, i))

\* C8: with K = (max(F,S)-1) + G - 1, signal_line is absent before row K,
\* is the mean of the G macd_line values of rows K-G+1..K at row K, and
\* follows the recurrence with alpha = 2/(G+1) after it; macd_histogram is
\* macd_line - signal_line where both are defined and absent elsewhere.
C8_SignalAndHistogram ==
  (ValidMacdCall /\ result.kind = "table")
  => LET G == call.signal_period
         K == Max(call.fast_period, call.slow_period) + G - 1
         line == result.table.cols["macd_line"]
         signal == result.table.cols["signal_line"]
         histogram == result.table.cols["macd_histogram"]
     IN  \A i \in 1..NRows(data) :
           /\ signal[i] =
                IF i < K THEN NaN
                ELSE IF i = K THEN FullMean(SubSeq(line, K - G + 1, K))
                ELSE Recur(Rat(2, G + 1), line[i], signal[i - 1])
           /\ histogram[i] =
                IF notna(line[i]) /\ notna(signal[i])
                THEN Sub(line[i], signal[i])
                ELSE NaN

\* C9: for a period P >= 1 calculate_rsi returns a table; each defined value
\* of rsi_P lies in [0, 100]; where avgLoss = 0 and avgGain > 0 the value is
\* 100; where avgLoss = 0 and avgGain = 0 the value is absent.
C9_RsiRange ==
  (Called("calculate_rsi") /\ call.period >= 1)
  => /\ result.kind = "table"
     /\ LET close == data.cols["close"]
            avg_gain == avg_gain_of(close, call.period)
            avg_loss == avg_loss_of(close, call.period)
            out == result.table.cols["rsi_" \o ToString(call.period)]
        IN  \A i \in 1..Len(close) :
              /\ notna(out[i]) => Le(Num(0), out[i]) /\ Le(out[i], Num(100))
              /\ (avg_loss[i] = Num(0) /\ Gt(avg_gain[i], Num(0)))
                   => out[i] = Num(100)
              /\ (avg_loss[i] = Num(0) /\ avg_gain[i] = Num(0))
                   => isna(out[i])

\* C9 witness: prices flat, up, down with period 2: the row whose window
\* holds no gain and no loss is absent (0/0), the row with a gain and no
\* loss is 100, the row with equal gain and loss is 50.
C9_Witness ==
  /\ Called("calculate_rsi") /\ call.period = 2
  /\ result.kind = "table"
  /\ data.cols["close"] = <<Num(1), Num(1), Num(2), Num(1)>>
  /\ result.table.cols["rsi_2"] = <<NaN, NaN, Num(100), Num(50)>>

\* C10: delta[0] is absent and stays absent in gain and loss, so for a
\* period P >= 1 rsi_P is absent at every row whose window i-P+1..i holds
\* row 0 or starts before it (rows 0..P-1).
C10_RsiWarmUp ==
  (Called("calculate_rsi") /\ call.period >= 1 /\ result.kind = "table")
  => LET close == data.cols["close"]
         out == result.table.cols["rsi_" \o ToString(call.period)]
     IN  \A i \in 1..Len(close) : i <= call.period => isna(out[i])

====
